---------------------------- MODULE Spec2Model ----------------------------
(***************************************************************************)
(* Beehive: the in-memory transactional state (bh/inmem.go), the bee's     *)
(* event loop (localBee) and the hive (hive.go).                           *)
(*                                                                         *)
(* Specifications:                                                         *)
(*   SpecState  a client calling the TxState API of one inMemoryState in   *)
(*              any order, keeping every Dict view it was handed.          *)
(*   SpecBeeTx  one localBee running start() on messages whose handlers    *)
(*              use the bee's state through the same TxState operations.   *)
(*   SpecBee    one localBee running start() on the messages and commands  *)
(*              of its two channels.                                       *)
(*   SpecBeeCmds  one localBee that is sent commands of every type.        *)
(*   SpecBeeRepl  one localBee whose colony gets slaves and that           *)
(*              replicates transactions to them.                           *)
(*   SpecHive   a hive with handlers that is started once, sent messages   *)
(*              and commands, and stopped.                                 *)
(*   SpecHiveMsg  a hive routing broadcast and unicast messages.           *)
(*   SpecHiveLife, SpecHiveLifeFair  a hive started and stopped by         *)
(*              concurrent callers, without and with fairness of Start.    *)
(***************************************************************************)
EXTENDS Integers, Sequences, FiniteSets, TLC

\* ------------------------------------------------------------------ bounds
\* The dictionary names, keys and values the callers draw their inputs from.
Names == {"d1", "d2"}
Keys == {"a", "b"}
Vals == {"v1", "v2"}
\* Dict() calls whose returned view is kept (the views are heap objects).
MaxViews == 2
\* Put/Del calls.
MaxWrites == 2

\* Messages and commands ever enqueued on the bee's channels.
MaxMsgs == 2
MaxCmds == 2
\* Capacity of the bee's data and control channels (their buffer size is
\* chosen by whoever makes the bee).
ChanCap == 2

\* The bee's own id (the colony's master) and the ids commands may name.
MasterID == "b0"
BeeIDs == {"b0", "b1", "b2"}
\* The sequence numbers BufferTx and CommitTx commands may carry.
TxSeqs == {"s1", "s2"}

\* The keys and values the handlers of the bee's messages write.
RcvKeys == {"a"}
RcvVals == {"v1"}

\* The zero Value (nil), also what Get returns beside its error.
NilVal == "nil"

VARIABLES
    \* inMemoryState.Dicts: DictName -> (Key -> Value), dicts created lazily.
    Dicts,
    \* inMemoryState.tx: [isNil, stage], stage: DictName -> index into views.
    tx,
    \* The Dict objects handed out by Dict(name), in allocation order. A direct
    \* view is the *inMemDict itself, a staged one an *inMemStagedDict.
    views,
    \* The last call of the TxState/Dict API and what it returned.
    ret,
    \* Number of Put/Del calls so far.
    writes,
    \* History: the life of the transaction as the callers see it,
    \* "none" | "open" | "committed" | "aborted".
    phase,
    \* History: the underlying dicts without any staged operation: the content
    \* at BeginTx, followed by the writes made through direct views.
    pre,
    \* History: the latest Put/Del staged for each (DictName, Key) while the
    \* transaction is open.
    intents,
    \* History: no Put/Del was staged since the transaction ended.
    quiet

stateVars == <<Dicts, tx, views, ret, writes, phase, pre, intents, quiet>>

VARIABLES
    \* bee.ctx.app.Transactional().
    transactional,
    \* localBee.dataCh and localBee.ctrlCh, buffered channels.
    dataCh, ctrlCh,
    \* Where the bee's goroutine is in start(): "select" | "handleMsg" | "rcv" |
    \* "commit" | "recover" | "handleCmd" | "reply" | "stopped" | "crashed".
    pc,
    \* The msgAndHandler and the LocalCmd being handled.
    cur, curCmd,
    \* The CmdResult handleCmd is sending on cmd.ResCh, and what it then returns.
    pending,
    \* localBee.beeColony and localBee.txBuf.
    beeColony, txBuf,
    \* What was received on each command's ResCh, by command id.
    replies,
    \* Ids of the next message and command to be enqueued.
    nextMsg, nextCmd,
    \* The views of index above hbase are those of the running handler.
    hbase,
    \* History: message ids in the order they left dataCh, and in the order
    \* handleMsg was entered; the ids whose handleMsg has not returned.
    dequeued, started, inProgress,
    \* History: commands taken from ctrlCh so far.
    cmdsTaken,
    \* History: the ctx calls handleMsg made for the last message, and how its
    \* handler ended: "none" | "nil" | "err" | "panic".
    calls, outcome,
    \* History: the dicts when handleMsg was entered; whether a handler failed,
    \* the dicts when the last failed handler was entered, and whether no
    \* handler wrote anything since.
    msgPre, hasFailed, failPre, cleanSince

beeVars == <<transactional, dataCh, ctrlCh, pc, cur, curCmd, pending, beeColony,
             txBuf, replies, nextMsg, nextCmd, hbase, dequeued, started,
             inProgress, cmdsTaken, calls, outcome, msgPre, hasFailed, failPre,
             cleanSince>>

\* ------------------------------------------------------------------ the hive
\* This hive and another hive of the cluster.
HiveID == "hive1"
OtherHive == "hive2"
\* The apps created on the hive; each has one qee, named after its app.
Apps == {"a1", "a2"}
MsgTypes == {"T1", "T2"}
Handlers == {"h1", "h2"}
\* No handler, and no destination bee (a broadcast message).
NilHandler == "nil"
NoBee == "none"
\* The bees a message may be sent to: b1 and b2 are in the registry, b9 is not.
HiveBees == {"b1", "b2", "b9"}
\* The goroutines that send commands to the hive: the application and the
\* goroutine of registerSignals.
Callers == {"app", "sig"}
HiveCmdTypes == {"cmdStop", "cmdPingHive", "cmdNewHiveID", "cmdAddHive",
                 "cmdLiveHives", "cmdOther"}
\* cfg.DataChBufSize.
DataChBufSize == 2
\* The messages emitted, handlers registered, calls made by the application
\* and calls of Start.
MaxHiveMsgs == 2
MaxRegs == 3
MaxCalls == 2
MaxStarts == 2
\* tries := 5 of stopQees.
Tries == 5

VARIABLES
    \* hive.status, and where the goroutine that called Start is:
    \* "idle" (not in Start), a step of Start, "loop" (the for/select), a step
    \* of handleCmd, or "fatal" (glog.Fatalf ended the process).
    status, hpc,
    \* hive.dataCh; hive.listener ("nil", "open", "closed"); hive.node
    \* ("nil", "new", "synced" once the NoOp barrier is committed, "stopped").
    hiveDataCh, listener, node,
    \* The bees reloadState sent cmdReloadBee for, in this Start.
    reloaded,
    \* hive.qees: message type -> sequence of qeeAndHandler [q, h].
    qees,
    \* Per qee: what was sent on its dataCh, and its state ("new", "running",
    \* "stopReq" once it was sent cmdStop and has not replied, "stopped").
    qeeDataCh, qeeCtrl,
    \* stopQees: the qees still to stop, the one waited for, tries.
    qs, curQ, tries,
    \* The caller whose command handleCmd is handling ("" if none), and per
    \* caller: pc ("idle", "sigwait", "send" blocked on h.ctrlCh, "wait" for the
    \* reply, "returned"), the command, the replies received and the error.
    cc, callers,
    \* Counters of the inputs.
    starts, nextHiveMsg, regs, ncalls,
    \* History: the handler last registered per (type, qee); the steps of this
    \* Start; the steps of the stop cascade; whether a Stop was processed.
    lastReg, startLog, stopLog, stopProcessed

hiveVars == <<status, hpc, hiveDataCh, listener, node, reloaded, qees,
              qeeDataCh, qeeCtrl, qs, curQ, tries, cc, callers, starts,
              nextHiveMsg, regs, ncalls, lastReg, startLog, stopLog,
              stopProcessed>>

VARIABLES
    \* The last call of replicateTx: the slaves of the colony at the call, the
    \* slaves whose proxy failed, the slaves SendCmd was called for, in order,
    \* and whether an error was returned.
    repl

replVars == <<repl>>

vars == <<stateVars, beeVars, hiveVars, replVars>>

\* ------------------------------------------------------------------ maps
EmptyMap == [x \in {} |-> NilVal]

\* m[k] = v of a Go map.
MapPut(m, k, v) == [x \in (DOMAIN m) \cup {k} |-> IF x = k THEN v ELSE m[x]]

\* delete(m, k) of a Go map.
MapDel(m, k) == [x \in (DOMAIN m) \ {k} |-> m[x]]

PutOp(n, k, v) == [T |-> "Put", D |-> n, K |-> k, V |-> v]

DelOp(n, k) == [T |-> "Del", D |-> n, K |-> k, V |-> NilVal]

\* ------------------------------------------------------------------ inMemDict
\* inMemoryState.inMemDict: the dict of that name, created when missing.
inMemDict(D, n) == IF n \in DOMAIN D THEN D ELSE MapPut(D, n, EmptyMap)

\* inMemDict.Get: (value, error).
inMemDictGet(D, n, k) ==
    IF n \in DOMAIN D /\ k \in DOMAIN D[n]
        THEN [v |-> D[n][k], err |-> FALSE]
        ELSE [v |-> NilVal, err |-> TRUE]

inMemDictPut(D, n, k, v) == [D EXCEPT ![n] = MapPut(@, k, v)]

inMemDictDel(D, n, k) == [D EXCEPT ![n] = MapDel(@, k)]

\* ------------------------------------------------------------------ staged dict
\* inMemStagedDict.Get on the staged dict sd over the dicts D.
inMemStagedDictGet(D, sd, k) ==
    IF k \in DOMAIN sd.ops /\ sd.ops[k].T = "Put"
        THEN [v |-> sd.ops[k].V, err |-> FALSE]
    ELSE IF k \in DOMAIN sd.ops /\ sd.ops[k].T = "Del"
        THEN [v |-> NilVal, err |-> TRUE]
    ELSE inMemDictGet(D, sd.dict, k)

\* Get through any view.
ViewGet(D, vw, k) ==
    IF vw.kind = "staged" THEN inMemStagedDictGet(D, vw, k)
    ELSE inMemDictGet(D, vw.dict, k)

\* The entries of a Go map as the sequence a range over it yields them; the
\* order of a range is unspecified and nothing below depends on it.
RECURSIVE RangeOf(_)
RangeOf(m) ==
    IF DOMAIN m = {} THEN <<>>
    ELSE LET k == CHOOSE x \in DOMAIN m : TRUE
         IN <<(<<k, m[k]>>)>> \o RangeOf(MapDel(m, k))

\* inMemDict.ForEach: the calls f(k, v), in order.
inMemDictForEach(D, n) == IF n \in DOMAIN D THEN RangeOf(D[n]) ELSE <<>>

\* The callback inMemStagedDict.ForEach hands to the underlying ForEach: the
\* calls of f it makes for the underlying entry e.
StagedIterFn(sd, e) ==
    IF e[1] \in DOMAIN sd.ops /\ sd.ops[e[1]].T = "Put"
        THEN <<(<<sd.ops[e[1]].K, sd.ops[e[1]].V>>)>>
    ELSE IF e[1] \in DOMAIN sd.ops /\ sd.ops[e[1]].T = "Del"
        THEN <<>>
    ELSE <<e>>

RECURSIVE FlatMap(_, _)
FlatMap(sd, es) ==
    IF es = <<>> THEN <<>> ELSE StagedIterFn(sd, Head(es)) \o FlatMap(sd, Tail(es))

\* inMemStagedDict.ForEach: the calls f(k, v), in order.
inMemStagedDictForEach(D, sd) == FlatMap(sd, inMemDictForEach(D, sd.dict))

\* ForEach through any view.
ViewForEach(D, vw) ==
    IF vw.kind = "staged" THEN inMemStagedDictForEach(D, vw)
    ELSE inMemDictForEach(D, vw.dict)

\* The Put/Del of one staged dict applied to its underlying map, as
\* inMemoryTx.Commit does for each op (one op per key, so in any order).
ApplyOps(d, ops) ==
    [k \in ((DOMAIN d) \ {x \in DOMAIN ops : ops[x].T = "Del"})
            \cup {x \in DOMAIN ops : ops[x].T = "Put"} |->
        IF k \in DOMAIN ops THEN ops[k].V ELSE d[k]]

\* inMemoryTx.Commit: every staged dict of the stage applied to its dict.
Commit(D, stage, vs) ==
    [n \in DOMAIN D |->
        IF n \in DOMAIN stage THEN ApplyOps(D[n], vs[stage[n]].ops) ELSE D[n]]

\* inMemoryTx.Abort.
Abort(D, stage, vs) == D

\* ------------------------------------------------------------------ TxState
NilTx == [isNil |-> TRUE, stage |-> EmptyMap]

\* inMemoryState.newTransaction.
newTransaction == [isNil |-> FALSE, stage |-> EmptyMap]

NoIntents == [n \in Names |-> EmptyMap]

StateInit ==
    /\ Dicts = EmptyMap
    /\ tx = NilTx
    /\ views = <<>>
    /\ ret = [op |-> "new", err |-> FALSE]
    /\ writes = 0
    /\ phase = "none"
    /\ pre = EmptyMap
    /\ intents = NoIntents
    /\ quiet = TRUE

BeginTx ==
    /\ IF ~tx.isNil
         THEN /\ ret' = [op |-> "BeginTx", err |-> TRUE]
              /\ UNCHANGED <<tx, phase, pre, intents, quiet>>
         ELSE /\ tx' = newTransaction
              /\ ret' = [op |-> "BeginTx", err |-> FALSE]
              /\ phase' = "open"
              /\ pre' = Dicts
              /\ intents' = NoIntents
              /\ quiet' = TRUE
    /\ UNCHANGED <<Dicts, views, writes>>

CommitTx ==
    /\ IF tx.isNil
         THEN /\ ret' = [op |-> "CommitTx", err |-> TRUE]
              /\ UNCHANGED <<Dicts, phase>>
         ELSE /\ Dicts' = Commit(Dicts, tx.stage, views)
              /\ ret' = [op |-> "CommitTx", err |-> FALSE]
              /\ phase' = IF phase = "open" THEN "committed" ELSE phase
    /\ UNCHANGED <<tx, views, writes, pre, intents, quiet>>

AbortTx ==
    /\ IF tx.isNil
         THEN /\ ret' = [op |-> "AbortTx", err |-> TRUE]
              /\ UNCHANGED <<Dicts, phase>>
         ELSE /\ Dicts' = Abort(Dicts, tx.stage, views)
              /\ ret' = [op |-> "AbortTx", err |-> FALSE]
              /\ phase' = IF phase = "open" THEN "aborted" ELSE phase
    /\ UNCHANGED <<tx, views, writes, pre, intents, quiet>>

\* inMemoryTx.Dict: a new staged dict with no ops, which takes the place of
\* the stage's staged dict of that name.
inMemoryTxDict(n) ==
    /\ views' = Append(views, [kind |-> "staged", dict |-> n, ops |-> EmptyMap,
                               inTx |-> phase = "open"])
    /\ tx' = [tx EXCEPT !.stage = MapPut(@, n, Len(views) + 1)]

\* inMemoryState.Dict.
Dict(n) ==
    /\ Len(views) < MaxViews
    /\ Dicts' = inMemDict(Dicts, n)
    /\ pre' = inMemDict(pre, n)
    /\ IF ~tx.isNil
         THEN inMemoryTxDict(n)
         ELSE /\ views' = Append(views, [kind |-> "direct", dict |-> n,
                                         ops |-> EmptyMap, inTx |-> phase = "open"])
              /\ UNCHANGED tx
    /\ ret' = [op |-> "Dict", err |-> FALSE, view |-> Len(views) + 1]
    /\ UNCHANGED <<writes, phase, intents, quiet>>

\* Put through view i: inMemDict.Put or inMemStagedDict.Put.
Put(i, k, v) ==
    /\ i \in 1..Len(views)
    /\ writes < MaxWrites
    /\ writes' = writes + 1
    /\ LET vw == views[i] IN
       IF vw.kind = "direct"
         THEN /\ Dicts' = inMemDictPut(Dicts, vw.dict, k, v)
              /\ pre' = inMemDictPut(pre, vw.dict, k, v)
              /\ UNCHANGED <<views, intents, quiet>>
         ELSE /\ views' = [views EXCEPT ![i].ops = MapPut(@, k, PutOp(vw.dict, k, v))]
              /\ intents' = IF phase = "open"
                              THEN [intents EXCEPT ![vw.dict] = MapPut(@, k, PutOp(vw.dict, k, v))]
                              ELSE intents
              /\ quiet' = (phase = "open")
              /\ UNCHANGED <<Dicts, pre>>
    /\ ret' = [op |-> "Put", err |-> FALSE, view |-> i, key |-> k, val |-> v]
    /\ UNCHANGED <<tx, phase>>

\* Del through view i: inMemDict.Del or inMemStagedDict.Del.
Del(i, k) ==
    /\ i \in 1..Len(views)
    /\ writes < MaxWrites
    /\ writes' = writes + 1
    /\ LET vw == views[i] IN
       IF vw.kind = "direct"
         THEN /\ Dicts' = inMemDictDel(Dicts, vw.dict, k)
              /\ pre' = inMemDictDel(pre, vw.dict, k)
              /\ UNCHANGED <<views, intents, quiet>>
         ELSE /\ views' = [views EXCEPT ![i].ops = MapPut(@, k, DelOp(vw.dict, k))]
              /\ intents' = IF phase = "open"
                              THEN [intents EXCEPT ![vw.dict] = MapPut(@, k, DelOp(vw.dict, k))]
                              ELSE intents
              /\ quiet' = (phase = "open")
              /\ UNCHANGED <<Dicts, pre>>
    /\ ret' = [op |-> "Del", err |-> FALSE, view |-> i, key |-> k, val |-> NilVal]
    /\ UNCHANGED <<tx, phase>>

\* Get through view i: inMemDict.Get or inMemStagedDict.Get.
Get(i, k) ==
    /\ i \in 1..Len(views)
    /\ LET r == ViewGet(Dicts, views[i], k) IN
       ret' = [op |-> "Get", err |-> r.err, view |-> i, key |-> k, val |-> r.v]
    /\ UNCHANGED <<Dicts, tx, views, writes, phase, pre, intents, quiet>>

\* ForEach through view i: inMemDict.ForEach or inMemStagedDict.ForEach.
ForEach(i) ==
    /\ i \in 1..Len(views)
    /\ ret' = [op |-> "ForEach", err |-> FALSE, view |-> i,
               calls |-> ViewForEach(Dicts, views[i])]
    /\ UNCHANGED <<Dicts, tx, views, writes, phase, pre, intents, quiet>>

\* The zero value of StateOp: no dict name, no key, no value.
ZeroOp == [T |-> "zero", D |-> "", K |-> "", V |-> NilVal]

RECURSIVE Zeros(_)
\* make([]StateOp, l): l zero values.
Zeros(l) == IF l = 0 THEN <<>> ELSE <<ZeroOp>> \o Zeros(l - 1)

RECURSIVE StagedOps(_, _)
\* The ops of the staged dicts es (pairs of name and view index), dict after
\* dict, as the two nested ranges of Tx visit them.
StagedOps(es, vs) ==
    IF es = <<>> THEN <<>>
    ELSE LET os == RangeOf(vs[Head(es)[2]].ops)
         IN [j \in 1..Len(os) |-> os[j][2]] \o StagedOps(Tail(es), vs)

\* inMemoryState.Tx for a transaction that is not nil: make([]StateOp, l)
\* with l the number of staged ops, then every staged op appended to it.
inMemoryStateTx(t, vs) ==
    LET ops == StagedOps(RangeOf(t.stage), vs)
    IN Zeros(Len(ops)) \o ops

\* inMemoryState.Tx.
Tx ==
    /\ ret' = IF tx.isNil
                THEN [op |-> "Tx", err |-> FALSE, isNil |-> TRUE, ops |-> <<>>]
                ELSE [op |-> "Tx", err |-> FALSE, isNil |-> FALSE,
                      ops |-> inMemoryStateTx(tx, views)]
    /\ UNCHANGED <<Dicts, tx, views, writes, phase, pre, intents, quiet>>

\* ------------------------------------------------------------------ SpecState
ClientDict == \E n \in Names : Dict(n)

ClientPut == \E i \in 1..MaxViews, k \in Keys, v \in Vals : Put(i, k, v)

ClientDel == \E i \in 1..MaxViews, k \in Keys : Del(i, k)

ClientGet == \E i \in 1..MaxViews, k \in Keys : Get(i, k)

ClientForEach == \E i \in 1..MaxViews : ForEach(i)

\* ------------------------------------------------------------------ BeeColony
\* BeeColony.AddSlave: (the slaves afterwards, whether id was added).
AddSlave(slaves, id) ==
    IF \E j \in 1..Len(slaves) : slaves[j] = id
        THEN [slaves |-> slaves, ok |-> FALSE]
        ELSE [slaves |-> Append(slaves, id), ok |-> TRUE]

\* BeeColony.DelSlave: (the slaves afterwards, whether id was removed).
DelSlave(slaves, id) ==
    IF \E j \in 1..Len(slaves) : slaves[j] = id
        THEN LET i == CHOOSE j \in 1..Len(slaves) :
                        slaves[j] = id /\ \A h \in 1..(j - 1) : slaves[h] # id
             IN [slaves |-> SubSeq(slaves, 1, i - 1) \o SubSeq(slaves, i + 1, Len(slaves)),
                 ok |-> TRUE]
        ELSE [slaves |-> slaves, ok |-> FALSE]

\* ------------------------------------------------------------------ localBee
NoMsg == [id |-> 0]

NoCmd == [id |-> 0, CmdType |-> "none", CmdData |-> <<>>, hasResCh |-> FALSE]

NoResult == [Err |-> FALSE, Data |-> <<>>, continue |-> TRUE]

CmdTypes == {"stopCmd", "listSlavesCmd", "addSlaveCmd", "delSlaveCmd",
             "bufferTxCmd", "commitTxCmd", "unknownCmd"}

\* The commands sent to a bee that is handling messages (SpecBee).
LoopCmdTypes == {"stopCmd", "listSlavesCmd", "unknownCmd"}

\* The data a command of type t may carry.
CmdDataOf(t) ==
    IF t \in {"addSlaveCmd", "delSlaveCmd"} THEN BeeIDs
    ELSE IF t \in {"bufferTxCmd", "commitTxCmd"} THEN TxSeqs
    ELSE {"none"}

BeeInit ==
    /\ transactional \in BOOLEAN
    /\ dataCh = <<>>
    /\ ctrlCh = <<>>
    /\ pc = "select"
    /\ cur = NoMsg
    /\ curCmd = NoCmd
    /\ pending = NoResult
    /\ beeColony = [Master |-> MasterID, Slaves |-> <<>>]
    /\ txBuf = <<>>
    /\ replies = [c \in 1..MaxCmds |-> <<>>]
    /\ nextMsg = 1
    /\ nextCmd = 1
    /\ hbase = 0
    /\ dequeued = <<>>
    /\ started = <<>>
    /\ inProgress = {}
    /\ cmdsTaken = 0
    /\ calls = <<>>
    /\ outcome = "none"
    /\ msgPre = EmptyMap
    /\ hasFailed = FALSE
    /\ failPre = EmptyMap
    /\ cleanSince = TRUE

\* localBee.enqueMsg: a send on the buffered data channel.
enqueMsg ==
    /\ nextMsg <= MaxMsgs
    /\ Len(dataCh) < ChanCap
    /\ dataCh' = Append(dataCh, [id |-> nextMsg])
    /\ nextMsg' = nextMsg + 1
    /\ UNCHANGED <<transactional, ctrlCh, pc, cur, curCmd, pending,
                 beeColony, txBuf, replies, nextCmd, hbase, dequeued,
                 started, inProgress, cmdsTaken, calls, outcome, msgPre,
                 hasFailed, failPre, cleanSince>>
    /\ UNCHANGED stateVars

\* localBee.enqueCmd: a send on the buffered control channel, of a command
\* whose type is one of types.
enqueCmd(types) ==
    /\ nextCmd <= MaxCmds
    /\ Len(ctrlCh) < ChanCap
    /\ \E t \in types : \E d \in CmdDataOf(t) : \E r \in BOOLEAN :
         ctrlCh' = Append(ctrlCh, [id |-> nextCmd, CmdType |-> t, CmdData |-> d,
                                   hasResCh |-> r])
    /\ nextCmd' = nextCmd + 1
    /\ UNCHANGED <<transactional, dataCh, pc, cur, curCmd, pending,
                 beeColony, txBuf, replies, nextMsg, hbase, dequeued,
                 started, inProgress, cmdsTaken, calls, outcome, msgPre,
                 hasFailed, failPre, cleanSince>>
    /\ UNCHANGED stateVars

\* A start() that would also take from its channels while a handler runs.
atSelectAnytime == pc \in {"select", "rcv"}

\* The bee is at the select of start(): nothing is being handled.
atSelect == pc = "select"

\* start(): the data case of the select.
startData ==
    /\ atSelect
    /\ dataCh # <<>>
    /\ cur' = Head(dataCh)
    /\ dataCh' = Tail(dataCh)
    /\ pc' = "handleMsg"
    /\ dequeued' = Append(dequeued, Head(dataCh).id)
    /\ UNCHANGED <<transactional, ctrlCh, curCmd, pending, beeColony, txBuf,
                 replies, nextMsg, nextCmd, hbase, started, inProgress,
                 cmdsTaken, calls, outcome, msgPre, hasFailed, failPre,
                 cleanSince>>
    /\ UNCHANGED stateVars

\* start(): the control case of the select.
startCtrl ==
    /\ atSelect
    /\ ctrlCh # <<>>
    /\ curCmd' = Head(ctrlCh)
    /\ ctrlCh' = Tail(ctrlCh)
    /\ pc' = "handleCmd"
    /\ cmdsTaken' = cmdsTaken + 1
    /\ UNCHANGED <<transactional, dataCh, cur, pending, beeColony, txBuf,
                 replies, nextMsg, nextCmd, hbase, dequeued, started,
                 inProgress, calls, outcome, msgPre, hasFailed, failPre,
                 cleanSince>>
    /\ UNCHANGED stateVars

\* rcvContext.BeginTx, CommitTx and AbortTx: the context hands the call to
\* the bee's TxState.
ctxBeginTx == BeginTx

ctxCommitTx == CommitTx

ctxAbortTx == AbortTx

\* handleMsg up to the call of the handler: BeginTx for a transactional app.
handleMsgBegin ==
    /\ pc = "handleMsg"
    /\ IF transactional
         THEN ctxBeginTx /\ calls' = <<"BeginTx">>
         ELSE UNCHANGED stateVars /\ calls' = <<>>
    /\ pc' = "rcv"
    /\ hbase' = Len(views)
    /\ started' = Append(started, cur.id)
    /\ inProgress' = inProgress \cup {cur.id}
    /\ msgPre' = Dicts
    /\ outcome' = "none"
    /\ UNCHANGED <<transactional, dataCh, ctrlCh, cur, curCmd, pending,
                 beeColony, txBuf, replies, nextMsg, nextCmd, dequeued,
                 cmdsTaken, hasFailed, failPre, cleanSince>>

\* The handler (mh.handler.Rcv) asks the context's state for a dict.
RcvDict ==
    /\ pc = "rcv"
    /\ \E n \in Names : Dict(n)
    /\ UNCHANGED beeVars

\* The handler writes through a view it obtained.
RcvPut ==
    /\ pc = "rcv"
    /\ \E i \in (hbase + 1)..Len(views), k \in RcvKeys, v \in RcvVals : Put(i, k, v)
    /\ cleanSince' = FALSE
    /\ UNCHANGED <<transactional, dataCh, ctrlCh, pc, cur, curCmd, pending,
                 beeColony, txBuf, replies, nextMsg, nextCmd, hbase,
                 dequeued, started, inProgress, cmdsTaken, calls, outcome,
                 msgPre, hasFailed, failPre>>

RcvDel ==
    /\ pc = "rcv"
    /\ \E i \in (hbase + 1)..Len(views), k \in RcvKeys : Del(i, k)
    /\ cleanSince' = FALSE
    /\ UNCHANGED <<transactional, dataCh, ctrlCh, pc, cur, curCmd, pending,
                 beeColony, txBuf, replies, nextMsg, nextCmd, hbase,
                 dequeued, started, inProgress, cmdsTaken, calls, outcome,
                 msgPre, hasFailed, failPre>>

\* The handler returns nil, returns an error, or panics.
RcvReturn ==
    /\ pc = "rcv"
    /\ \E o \in {"nil", "err", "panic"} :
         /\ outcome' = o
         /\ pc' = IF o = "nil" THEN "commit" ELSE "recover"
    /\ UNCHANGED <<transactional, dataCh, ctrlCh, cur, curCmd, pending,
                 beeColony, txBuf, replies, nextMsg, nextCmd, hbase,
                 dequeued, started, inProgress, cmdsTaken, calls, msgPre,
                 hasFailed, failPre, cleanSince>>
    /\ UNCHANGED stateVars

\* handleMsg after the handler returned nil: CommitTx, collect, return.
handleMsgCommit ==
    /\ pc = "commit"
    /\ ctxCommitTx
    /\ calls' = Append(calls, "CommitTx")
    /\ pc' = "select"
    /\ inProgress' = inProgress \ {cur.id}
    /\ cur' = NoMsg
    /\ msgPre' = EmptyMap
    /\ hbase' = 0
    /\ UNCHANGED <<transactional, dataCh, ctrlCh, curCmd, pending, beeColony,
                 txBuf, replies, nextMsg, nextCmd, dequeued, started,
                 cmdsTaken, outcome, hasFailed, failPre, cleanSince>>

\* recoverFromError, reached from the error return and from the deferred
\* recover; handleMsg then returns.
recoverFromError ==
    /\ pc = "recover"
    /\ ctxAbortTx
    /\ calls' = Append(calls, "AbortTx")
    /\ pc' = "select"
    /\ inProgress' = inProgress \ {cur.id}
    /\ hasFailed' = TRUE
    /\ failPre' = msgPre
    /\ cleanSince' = TRUE
    /\ cur' = NoMsg
    /\ msgPre' = EmptyMap
    /\ hbase' = 0
    /\ UNCHANGED <<transactional, dataCh, ctrlCh, curCmd, pending, beeColony,
                 txBuf, replies, nextMsg, nextCmd, dequeued, started,
                 cmdsTaken, outcome>>

\* A handleCmd that would return true for stopCmd too.
handleCmdReturnAlways(cmd) == TRUE

\* What handleCmd returns for cmd: false if the bee should stop.
handleCmdReturn(cmd) == cmd.CmdType # "stopCmd"

\* handleCmd up to the send on cmd.ResCh: the CmdResult to send.
handleCmdResult(cmd) ==
    [Err |-> FALSE, Data |-> <<>>, continue |-> handleCmdReturn(cmd)]

\* case stopCmd and case listSlavesCmd.
handleCmdStopList ==
    /\ pc = "handleCmd"
    /\ curCmd.CmdType \in {"stopCmd", "listSlavesCmd"}
    /\ pending' = [handleCmdResult(curCmd) EXCEPT
                     !.Data = IF curCmd.CmdType = "listSlavesCmd"
                                THEN beeColony.Slaves ELSE <<>>]
    /\ pc' = "reply"
    /\ UNCHANGED <<transactional, dataCh, ctrlCh, cur, curCmd, beeColony,
                 txBuf, replies, nextMsg, nextCmd, hbase, dequeued, started,
                 inProgress, cmdsTaken, calls, outcome, msgPre, hasFailed,
                 failPre, cleanSince>>
    /\ UNCHANGED stateVars

\* case addSlaveCmd and case delSlaveCmd. When the slave is rejected the
\* error text is built with cmd.CmdData.(BeeID), a type assertion on a value
\* whose type is addSlaveCmdData or delSlaveCmdData: it panics, and nothing in
\* start() recovers.
handleCmdSlave ==
    /\ pc = "handleCmd"
    /\ curCmd.CmdType \in {"addSlaveCmd", "delSlaveCmd"}
    /\ LET r == IF curCmd.CmdType = "addSlaveCmd"
                  THEN AddSlave(beeColony.Slaves, curCmd.CmdData)
                  ELSE DelSlave(beeColony.Slaves, curCmd.CmdData)
       IN /\ beeColony' = [beeColony EXCEPT !.Slaves = r.slaves]
          /\ pending' = IF r.ok THEN handleCmdResult(curCmd) ELSE pending
          /\ pc' = IF r.ok THEN "reply" ELSE "crashed"
    /\ UNCHANGED <<transactional, dataCh, ctrlCh, cur, curCmd, txBuf,
                 replies, nextMsg, nextCmd, hbase, dequeued, started,
                 inProgress, cmdsTaken, calls, outcome, msgPre, hasFailed,
                 failPre, cleanSince>>
    /\ UNCHANGED stateVars

\* case bufferTxCmd.
handleCmdBufferTx ==
    /\ pc = "handleCmd"
    /\ curCmd.CmdType = "bufferTxCmd"
    /\ txBuf' = Append(txBuf, [Seq |-> curCmd.CmdData, Status |-> "TxOpen"])
    /\ pending' = handleCmdResult(curCmd)
    /\ pc' = "reply"
    /\ UNCHANGED <<transactional, dataCh, ctrlCh, cur, curCmd, beeColony,
                 replies, nextMsg, nextCmd, hbase, dequeued, started,
                 inProgress, cmdsTaken, calls, outcome, msgPre, hasFailed,
                 failPre, cleanSince>>
    /\ UNCHANGED stateVars

\* case commitTxCmd. The loop sets Status on tx, the range's copy of the
\* element, so txBuf itself is left as it is.
handleCmdCommitTx ==
    /\ pc = "handleCmd"
    /\ curCmd.CmdType = "commitTxCmd"
    /\ pending' = [handleCmdResult(curCmd) EXCEPT
                     !.Err = ~\E j \in 1..Len(txBuf) : txBuf[j].Seq = curCmd.CmdData]
    /\ pc' = "reply"
    /\ UNCHANGED <<transactional, dataCh, ctrlCh, cur, curCmd, beeColony,
                 txBuf, replies, nextMsg, nextCmd, hbase, dequeued, started,
                 inProgress, cmdsTaken, calls, outcome, msgPre, hasFailed,
                 failPre, cleanSince>>
    /\ UNCHANGED stateVars

\* default: an error result if there is a ResCh, else nothing is sent.
handleCmdDefault ==
    /\ pc = "handleCmd"
    /\ curCmd.CmdType = "unknownCmd"
    /\ pending' = IF curCmd.hasResCh
                    THEN [handleCmdResult(curCmd) EXCEPT !.Err = TRUE]
                    ELSE NoResult
    /\ pc' = IF curCmd.hasResCh THEN "reply" ELSE "select"
    /\ curCmd' = IF curCmd.hasResCh THEN curCmd ELSE NoCmd
    /\ UNCHANGED <<transactional, dataCh, ctrlCh, cur, beeColony, txBuf,
                 replies, nextMsg, nextCmd, hbase, dequeued, started,
                 inProgress, cmdsTaken, calls, outcome, msgPre, hasFailed,
                 failPre, cleanSince>>
    /\ UNCHANGED stateVars

\* cmd.ResCh <- CmdResult{...}, then handleCmd returns and start() goes on or
\* returns. A send on a nil ResCh never completes.
handleCmdSend ==
    /\ pc = "reply"
    /\ curCmd.hasResCh
    /\ replies' = [replies EXCEPT ![curCmd.id] =
                     Append(@, [Err |-> pending.Err, Data |-> pending.Data])]
    /\ pc' = IF pending.continue THEN "select" ELSE "stopped"
    /\ curCmd' = IF pending.continue THEN NoCmd ELSE curCmd
    /\ pending' = NoResult
    /\ UNCHANGED <<transactional, dataCh, ctrlCh, cur, beeColony, txBuf,
                 nextMsg, nextCmd, hbase, dequeued, started, inProgress,
                 cmdsTaken, calls, outcome, msgPre, hasFailed, failPre,
                 cleanSince>>
    /\ UNCHANGED stateVars

\* ------------------------------------------------------------------ replication
ReplInit ==
    repl = [called |-> FALSE, slaves |-> <<>>, fails |-> {}, sent |-> <<>>,
            err |-> FALSE]

RECURSIVE replicateTxFrom(_, _, _, _)
\* The range of replicateTx over slaves from index i on (i = 1 is Go's
\* i == 0), sent being the slaves SendCmd was called for so far: SendCmd for
\* the slave, its error logged, and return err if it is the first slave's.
replicateTxFrom(slaves, i, fails, sent) ==
    IF i > Len(slaves) THEN [sent |-> sent, err |-> FALSE]
    ELSE IF slaves[i] \in fails /\ i = 1
        THEN [sent |-> Append(sent, slaves[i]), err |-> TRUE]
    ELSE replicateTxFrom(slaves, i + 1, fails, Append(sent, slaves[i]))

\* localBee.replicateTx, called by the bee between two rounds of its loop;
\* fails are the slaves whose proxy returns an error from SendCmd.
replicateTx(fails) ==
    /\ pc = "select"
    /\ LET r == replicateTxFrom(beeColony.Slaves, 1, fails, <<>>)
       IN repl' = [called |-> TRUE, slaves |-> beeColony.Slaves, fails |-> fails,
                   sent |-> r.sent, err |-> r.err]
    /\ UNCHANGED <<stateVars, beeVars>>

\* ------------------------------------------------------------------ hive
\* registry.bee: the BeeInfo of bee b, or an error and the zero BeeInfo.
registryBee(b) ==
    IF b = "b1" THEN [err |-> FALSE, Hive |-> HiveID, App |-> "a1"]
    ELSE IF b = "b2" THEN [err |-> FALSE, Hive |-> OtherHive, App |-> "a2"]
    ELSE [err |-> TRUE, Hive |-> "", App |-> ""]

\* registry.beesOfHive.
beesOfHive(h) == {b \in HiveBees : ~registryBee(b).err /\ registryBee(b).Hive = h}

NoCaller == [pc |-> "idle", cmd |-> "none", replies |-> 0, err |-> "nil"]

\* Event e of the stop cascade, about qee q, caused by by after n timeouts.
StopEvent(e, q, by, n) == [ev |-> e, q |-> q, by |-> by, n |-> n]

\* NewHiveWithConfig, and no app has registered a handler yet.
HiveInit ==
    /\ status = "hiveStopped"
    /\ hpc = "idle"
    /\ hiveDataCh = <<>>
    /\ listener = "nil"
    /\ node = "nil"
    /\ reloaded = {}
    /\ qees = [t \in MsgTypes |-> <<>>]
    /\ qeeDataCh = [q \in Apps |-> <<>>]
    /\ qeeCtrl = [q \in Apps |-> "new"]
    /\ qs = {}
    /\ curQ = ""
    /\ tries = 0
    /\ cc = ""
    /\ callers = [c \in Callers |-> NoCaller]
    /\ starts = 0
    /\ nextHiveMsg = 1
    /\ regs = 0
    /\ ncalls = 0
    /\ lastReg = [t \in MsgTypes |-> [q \in Apps |-> NilHandler]]
    /\ startLog = <<>>
    /\ stopLog = <<>>
    /\ stopProcessed = FALSE

\* Whether the process is running: glog.Fatalf has not ended it.
alive == hpc # "fatal"

\* A registerHandler that would always append.
registerHandlerAppend(qhs, q, l) == Append(qhs, [q |-> q, h |-> l])

\* hive.registerHandler on h.qees[t]: the handler of q is replaced if q is
\* there, else (q, l) is appended.
registerHandlerIn(qhs, q, l) ==
    IF \E i \in 1..Len(qhs) : qhs[i].q = q
        THEN [i \in 1..Len(qhs) |-> IF qhs[i].q = q THEN [q |-> q, h |-> l]
                                                     ELSE qhs[i]]
        ELSE Append(qhs, [q |-> q, h |-> l])

\* hive.registerHandler, called for an app before the hive is started.
registerHandler(t, q, l) ==
    /\ hpc = "idle"
    /\ regs < MaxRegs
    /\ qees' = [qees EXCEPT ![t] = registerHandlerIn(@, q, l)]
    /\ lastReg' = [lastReg EXCEPT ![t][q] = l]
    /\ regs' = regs + 1
    /\ UNCHANGED <<status, hpc, hiveDataCh, listener, node, reloaded,
                 qeeDataCh, qeeCtrl, qs, curQ, tries, cc, callers, starts,
                 nextHiveMsg, ncalls, startLog, stopLog, stopProcessed>>
    /\ UNCHANGED <<stateVars, beeVars, replVars>>

\* hive.emitMsg: a send on the buffered data channel. to is NoBee for Emit
\* and a bee for SendToBee.
emitMsg(t, to) ==
    /\ alive
    /\ nextHiveMsg <= MaxHiveMsgs
    /\ Len(hiveDataCh) < DataChBufSize
    /\ hiveDataCh' = Append(hiveDataCh, [id |-> nextHiveMsg, Type |-> t, MsgTo |-> to])
    /\ nextHiveMsg' = nextHiveMsg + 1
    /\ UNCHANGED <<status, hpc, listener, node, reloaded, qees, qeeDataCh,
                 qeeCtrl, qs, curQ, tries, cc, callers, starts, regs, ncalls,
                 lastReg, startLog, stopLog, stopProcessed>>
    /\ UNCHANGED <<stateVars, beeVars, replVars>>

\* Start is called: h.status = hiveStarted.
Start ==
    /\ hpc = "idle"
    /\ starts < MaxStarts
    /\ status' = "hiveStarted"
    /\ hpc' = "registerSignals"
    /\ starts' = starts + 1
    /\ reloaded' = {}
    /\ startLog' = <<>>
    /\ stopLog' = <<>>
    /\ UNCHANGED <<hiveDataCh, listener, node, qees, qeeDataCh, qeeCtrl, qs,
                 curQ, tries, cc, callers, nextHiveMsg, regs, ncalls,
                 lastReg, stopProcessed>>
    /\ UNCHANGED <<stateVars, beeVars, replVars>>

\* registerSignals: a goroutine that waits for a signal and calls Stop.
registerSignals ==
    /\ hpc = "registerSignals"
    /\ callers' = [callers EXCEPT !["sig"] =
                     IF @.pc \in {"idle", "returned"}
                       THEN [NoCaller EXCEPT !.pc = "sigwait"] ELSE @]
    /\ hpc' = "startQees"
    /\ startLog' = Append(startLog, "registerSignals")
    /\ UNCHANGED <<status, hiveDataCh, listener, node, reloaded, qees,
                 qeeDataCh, qeeCtrl, qs, curQ, tries, cc, starts,
                 nextHiveMsg, regs, ncalls, lastReg, stopLog, stopProcessed>>
    /\ UNCHANGED <<stateVars, beeVars, replVars>>

\* startQees: go a.qee.start() for every app.
startQees ==
    /\ hpc = "startQees"
    /\ qeeCtrl' = [q \in Apps |-> "running"]
    /\ hpc' = "startListener"
    /\ startLog' = Append(startLog, "startQees")
    /\ UNCHANGED <<status, hiveDataCh, listener, node, reloaded, qees,
                 qeeDataCh, qs, curQ, tries, cc, callers, starts,
                 nextHiveMsg, regs, ncalls, lastReg, stopLog, stopProcessed>>
    /\ UNCHANGED <<stateVars, beeVars, replVars>>

\* startListener: h.listener is set if net.Listen succeeds, else left as it
\* is.
startListener ==
    /\ hpc = "startListener"
    /\ listener' \in {"open", listener}
    /\ hpc' = "startRaftNode"
    /\ startLog' = Append(startLog, "startListener")
    /\ UNCHANGED <<status, hiveDataCh, node, reloaded, qees, qeeDataCh,
                 qeeCtrl, qs, curQ, tries, cc, callers, starts, nextHiveMsg,
                 regs, ncalls, lastReg, stopLog, stopProcessed>>
    /\ UNCHANGED <<stateVars, beeVars, replVars>>

\* startRaftNode: a new node, and Process(NoOp{}) returns once the barrier is
\* committed, or with an error, which is fatal.
startRaftNode ==
    /\ hpc = "startRaftNode"
    /\ \/ node' = "synced" /\ hpc' = "reloadState"
       \/ node' = "new" /\ hpc' = "fatal"
    /\ startLog' = Append(startLog, "startRaftNode")
    /\ UNCHANGED <<status, hiveDataCh, listener, reloaded, qees, qeeDataCh,
                 qeeCtrl, qs, curQ, tries, cc, callers, starts, nextHiveMsg,
                 regs, ncalls, lastReg, stopLog, stopProcessed>>
    /\ UNCHANGED <<stateVars, beeVars, replVars>>

\* reloadState: cmdReloadBee for every bee of this hive in the registry whose
\* app is there; then Start enters its loop.
reloadState ==
    /\ hpc = "reloadState"
    /\ reloaded' = {b \in beesOfHive(HiveID) : registryBee(b).App \in Apps}
    /\ hpc' = "loop"
    /\ startLog' = Append(startLog, "reloadState")
    /\ UNCHANGED <<status, hiveDataCh, listener, node, qees, qeeDataCh,
                 qeeCtrl, qs, curQ, tries, cc, callers, starts, nextHiveMsg,
                 regs, ncalls, lastReg, stopLog, stopProcessed>>
    /\ UNCHANGED <<stateVars, beeVars, replVars>>

\* app.handler(t): the handler the app registered for type t, if any.
appHandler(a, t) ==
    IF \E i \in 1..Len(qees[t]) : qees[t][i].q = a
        THEN LET i == CHOOSE i \in 1..Len(qees[t]) : qees[t][i].q = a
             IN qees[t][i].h
        ELSE NilHandler

\* q.dataCh <- msgAndHandler{m, h}.
enqueOn(chans, q, m, h) == [chans EXCEPT ![q] = Append(@, [m |-> m.id, h |-> h])]

RECURSIVE enqueAll(_, _, _)
\* The default case of handleMsg: m is sent to the qee of every entry of qhs.
enqueAll(chans, qhs, m) ==
    IF qhs = <<>> THEN chans
    ELSE enqueAll(enqueOn(chans, Head(qhs).q, m, Head(qhs).h), Tail(qhs), m)

\* hive.handleMsg: the qees' data channels afterwards, and whether
\* glog.Fatalf was called.
hiveHandleMsg(chans, m) ==
    IF m.MsgTo # NoBee
        THEN LET i == registryBee(m.MsgTo)
             IN IF i.App \in Apps
                  THEN [chans |-> enqueOn(chans, i.App, m, appHandler(i.App, m.Type)),
                        fatal |-> FALSE]
                  ELSE [chans |-> chans, fatal |-> TRUE]
        ELSE [chans |-> enqueAll(chans, qees[m.Type], m), fatal |-> FALSE]

\* A Start that would take from its channels while it reloads the state.
atLoopEarly == hpc \in {"reloadState", "loop"}

\* Start is at the select of its loop.
atLoop == hpc = "loop"

\* for h.status == hiveStarted is false: Start returns nil.
StartReturn ==
    /\ hpc = "loop"
    /\ status # "hiveStarted"
    /\ hpc' = "idle"
    /\ UNCHANGED <<status, hiveDataCh, listener, node, reloaded, qees,
                 qeeDataCh, qeeCtrl, qs, curQ, tries, cc, callers, starts,
                 nextHiveMsg, regs, ncalls, lastReg, startLog, stopLog,
                 stopProcessed>>
    /\ UNCHANGED <<stateVars, beeVars, replVars>>

\* case msg := <-h.dataCh: h.handleMsg(msg).
loopData ==
    /\ atLoop
    /\ status = "hiveStarted"
    /\ hiveDataCh # <<>>
    /\ LET r == hiveHandleMsg(qeeDataCh, Head(hiveDataCh))
       IN /\ qeeDataCh' = r.chans
          /\ hpc' = IF r.fatal THEN "fatal" ELSE "loop"
    /\ hiveDataCh' = Tail(hiveDataCh)
    /\ UNCHANGED <<status, listener, node, reloaded, qees, qeeCtrl, qs, curQ,
                 tries, cc, callers, starts, nextHiveMsg, regs, ncalls,
                 lastReg, startLog, stopLog, stopProcessed>>
    /\ UNCHANGED <<stateVars, beeVars, replVars>>

\* case cmd := <-h.ctrlCh: the hive takes the command of a caller blocked in
\* its send on the unbuffered control channel.
loopCtrl(c) ==
    /\ atLoop
    /\ status = "hiveStarted"
    /\ callers[c].pc = "send"
    /\ callers' = [callers EXCEPT ![c].pc = "wait"]
    /\ cc' = c
    /\ hpc' = "handleCmd"
    /\ UNCHANGED <<status, hiveDataCh, listener, node, reloaded, qees,
                 qeeDataCh, qeeCtrl, qs, curQ, tries, starts, nextHiveMsg,
                 regs, ncalls, lastReg, startLog, stopLog, stopProcessed>>
    /\ UNCHANGED <<stateVars, beeVars, replVars>>

\* hive.Stop of caller c: an error if the status is stopped, else
\* sendCmd(cmdStop{}), which first blocks in its send on h.ctrlCh.
Stop(c) ==
    /\ alive
    /\ \/ c = "app" /\ callers[c].pc \in {"idle", "returned"} /\ ncalls < MaxCalls
       \/ c = "sig" /\ callers[c].pc = "sigwait"
    /\ callers' = [callers EXCEPT ![c] =
                     IF status = "hiveStopped"
                       THEN [pc |-> "returned", cmd |-> "cmdStop", replies |-> 0,
                             err |-> "stopped"]
                       ELSE [pc |-> "send", cmd |-> "cmdStop", replies |-> 0,
                             err |-> "nil"]]
    /\ ncalls' = IF c = "app" THEN ncalls + 1 ELSE ncalls
    /\ UNCHANGED <<status, hpc, hiveDataCh, listener, node, reloaded, qees,
                 qeeDataCh, qeeCtrl, qs, curQ, tries, cc, starts,
                 nextHiveMsg, regs, lastReg, startLog, stopLog, stopProcessed>>
    /\ UNCHANGED <<stateVars, beeVars, replVars>>

\* hive.sendCmd of the application, for a command that is not cmdStop.
sendCmd(t) ==
    /\ alive
    /\ t # "cmdStop"
    /\ callers["app"].pc \in {"idle", "returned"}
    /\ ncalls < MaxCalls
    /\ callers' = [callers EXCEPT !["app"] =
                     [pc |-> "send", cmd |-> t, replies |-> 0, err |-> "nil"]]
    /\ ncalls' = ncalls + 1
    /\ UNCHANGED <<status, hpc, hiveDataCh, listener, node, reloaded, qees,
                 qeeDataCh, qeeCtrl, qs, curQ, tries, cc, starts,
                 nextHiveMsg, regs, lastReg, startLog, stopLog, stopProcessed>>
    /\ UNCHANGED <<stateVars, beeVars, replVars>>

\* A handleCmd that would answer every command without an error.
hiveCmdErrNil(t, e) == "nil"

\* The Err of the cmdResult handleCmd sends for a command of type t that is
\* not cmdStop; e is the error of the node's Process or AddNode.
hiveCmdErr(t, e) ==
    IF t \in {"cmdNewHiveID", "cmdAddHive"} THEN e
    ELSE IF t \in {"cmdPingHive", "cmdLiveHives"} THEN "nil"
    ELSE "ErrInvalidCmd"

\* The errors the node may return for a command of type t.
nodeErrs(t) ==
    IF t \in {"cmdNewHiveID", "cmdAddHive"} THEN {"nil", "raftErr"} ELSE {"nil"}

\* handleCmd, every case but cmdStop: one send on the command's channel.
hiveHandleCmd ==
    /\ hpc = "handleCmd"
    /\ callers[cc].cmd # "cmdStop"
    /\ \E e \in nodeErrs(callers[cc].cmd) :
         callers' = [callers EXCEPT ![cc] =
                       [@ EXCEPT !.pc = "returned", !.replies = @ + 1,
                                 !.err = hiveCmdErr(callers[cc].cmd, e)]]
    /\ cc' = ""
    /\ hpc' = "loop"
    /\ UNCHANGED <<status, hiveDataCh, listener, node, reloaded, qees,
                 qeeDataCh, qeeCtrl, qs, curQ, tries, starts, nextHiveMsg,
                 regs, ncalls, lastReg, startLog, stopLog, stopProcessed>>
    /\ UNCHANGED <<stateVars, beeVars, replVars>>

\* case cmdStop: h.status = hiveStopped.
hiveHandleCmdStop ==
    /\ hpc = "handleCmd"
    /\ callers[cc].cmd = "cmdStop"
    /\ status' = "hiveStopped"
    /\ stopProcessed' = TRUE
    /\ stopLog' = Append(stopLog, StopEvent("status", "", "", 0))
    /\ hpc' = "stopListener"
    /\ UNCHANGED <<hiveDataCh, listener, node, reloaded, qees, qeeDataCh,
                 qeeCtrl, qs, curQ, tries, cc, callers, starts, nextHiveMsg,
                 regs, ncalls, lastReg, startLog>>
    /\ UNCHANGED <<stateVars, beeVars, replVars>>

\* stopListener: the listener is closed if there is one.
stopListener ==
    /\ hpc = "stopListener"
    /\ listener' = IF listener = "nil" THEN "nil" ELSE "closed"
    /\ stopLog' = Append(stopLog, StopEvent("listener", "", "", 0))
    /\ hpc' = "stopQees"
    /\ UNCHANGED <<status, hiveDataCh, node, reloaded, qees, qeeDataCh,
                 qeeCtrl, qs, curQ, tries, cc, callers, starts, nextHiveMsg,
                 regs, ncalls, lastReg, startLog, stopProcessed>>
    /\ UNCHANGED <<stateVars, beeVars, replVars>>

\* stopQees: the set of the qees that have a handler.
stopQees ==
    /\ hpc = "stopQees"
    /\ qs' = UNION {{qees[t][i].q : i \in 1..Len(qees[t])} : t \in MsgTypes}
    /\ hpc' = "stopQee"
    /\ UNCHANGED <<status, hiveDataCh, listener, node, reloaded, qees,
                 qeeDataCh, qeeCtrl, curQ, tries, cc, callers, starts,
                 nextHiveMsg, regs, ncalls, lastReg, startLog, stopLog,
                 stopProcessed>>
    /\ UNCHANGED <<stateVars, beeVars, replVars>>

\* The body of the range over qs: cmdStop is sent to q with the one stopCh of
\* this stopQees, tries := 5.
stopQeeSend(q) ==
    /\ hpc = "stopQee"
    /\ q \in qs
    /\ qs' = qs \ {q}
    /\ curQ' = q
    /\ tries' = Tries
    /\ qeeCtrl' = [qeeCtrl EXCEPT ![q] = "stopReq"]
    /\ stopLog' = Append(stopLog, StopEvent("send", q, "", 0))
    /\ hpc' = "waitQee"
    /\ UNCHANGED <<status, hiveDataCh, listener, node, reloaded, qees,
                 qeeDataCh, cc, callers, starts, nextHiveMsg, regs, ncalls,
                 lastReg, startLog, stopProcessed>>
    /\ UNCHANGED <<stateVars, beeVars, replVars>>

\* case res := <-stopCh: some qee that was sent cmdStop and has not replied
\* yet sends its reply on stopCh; the qee waited for counts as stopped.
waitQeeReply(q) ==
    /\ hpc = "waitQee"
    /\ qeeCtrl[q] = "stopReq"
    /\ qeeCtrl' = [qeeCtrl EXCEPT ![q] = "stopped"]
    /\ stopLog' = Append(stopLog, StopEvent("ack", curQ, q, Tries - tries))
    /\ curQ' = ""
    /\ hpc' = "stopQee"
    /\ UNCHANGED <<status, hiveDataCh, listener, node, reloaded, qees,
                 qeeDataCh, qs, tries, cc, callers, starts, nextHiveMsg,
                 regs, ncalls, lastReg, startLog, stopProcessed>>
    /\ UNCHANGED <<stateVars, beeVars, replVars>>

\* case <-time.After(1 * time.Second): tries--, and the qee is given up when
\* tries < 0.
waitQeeTimeout ==
    /\ hpc = "waitQee"
    /\ tries' = tries - 1
    /\ IF tries - 1 < 0
         THEN /\ stopLog' = Append(stopLog,
                              StopEvent("ack", curQ, "timeout", Tries - tries + 1))
              /\ curQ' = ""
              /\ hpc' = "stopQee"
         ELSE UNCHANGED <<stopLog, curQ, hpc>>
    /\ UNCHANGED <<status, hiveDataCh, listener, node, reloaded, qees,
                 qeeDataCh, qeeCtrl, qs, cc, callers, starts, nextHiveMsg,
                 regs, ncalls, lastReg, startLog, stopProcessed>>
    /\ UNCHANGED <<stateVars, beeVars, replVars>>

\* The range over qs is over: stopQees returns.
stopQeesReturn ==
    /\ hpc = "stopQee"
    /\ qs = {}
    /\ hpc' = "nodeStop"
    /\ UNCHANGED <<status, hiveDataCh, listener, node, reloaded, qees,
                 qeeDataCh, qeeCtrl, qs, curQ, tries, cc, callers, starts,
                 nextHiveMsg, regs, ncalls, lastReg, startLog, stopLog,
                 stopProcessed>>
    /\ UNCHANGED <<stateVars, beeVars, replVars>>

\* h.node.Stop().
nodeStop ==
    /\ hpc = "nodeStop"
    /\ node' = "stopped"
    /\ stopLog' = Append(stopLog, StopEvent("node", "", "", 0))
    /\ hpc' = "replyStop"
    /\ UNCHANGED <<status, hiveDataCh, listener, reloaded, qees, qeeDataCh,
                 qeeCtrl, qs, curQ, tries, cc, callers, starts, nextHiveMsg,
                 regs, ncalls, lastReg, startLog, stopProcessed>>
    /\ UNCHANGED <<stateVars, beeVars, replVars>>

\* cc.ch <- cmdResult{} of case cmdStop; handleCmd returns to the loop.
replyStop ==
    /\ hpc = "replyStop"
    /\ callers' = [callers EXCEPT ![cc] =
                     [@ EXCEPT !.pc = "returned", !.replies = @ + 1, !.err = "nil"]]
    /\ stopLog' = Append(stopLog, StopEvent("reply", "", "", 0))
    /\ cc' = ""
    /\ hpc' = "loop"
    /\ UNCHANGED <<status, hiveDataCh, listener, node, reloaded, qees,
                 qeeDataCh, qeeCtrl, qs, curQ, tries, starts, nextHiveMsg,
                 regs, ncalls, lastReg, startLog, stopProcessed>>
    /\ UNCHANGED <<stateVars, beeVars, replVars>>

\* ------------------------------------------------------------------ specifications
Init == StateInit /\ BeeInit /\ HiveInit /\ ReplInit

\* The state of a transactional app, with no bee running on it.
InitState == Init /\ transactional

StateNext ==
    \/ BeginTx /\ UNCHANGED <<beeVars, hiveVars, replVars>>
    \/ CommitTx /\ UNCHANGED <<beeVars, hiveVars, replVars>>
    \/ AbortTx /\ UNCHANGED <<beeVars, hiveVars, replVars>>
    \/ ClientDict /\ UNCHANGED <<beeVars, hiveVars, replVars>>
    \/ ClientPut /\ UNCHANGED <<beeVars, hiveVars, replVars>>
    \/ ClientDel /\ UNCHANGED <<beeVars, hiveVars, replVars>>
    \/ ClientGet /\ UNCHANGED <<beeVars, hiveVars, replVars>>
    \/ ClientForEach /\ UNCHANGED <<beeVars, hiveVars, replVars>>
    \/ Tx /\ UNCHANGED <<beeVars, hiveVars, replVars>>

SpecState == InitState /\ [][StateNext]_vars

\* A bee whose handlers use its state; no command is sent to it.
BeeTxNext ==
    \/ enqueMsg /\ UNCHANGED <<hiveVars, replVars>>
    \/ startData /\ UNCHANGED <<hiveVars, replVars>>
    \/ handleMsgBegin /\ UNCHANGED <<hiveVars, replVars>>
    \/ RcvDict /\ UNCHANGED <<hiveVars, replVars>>
    \/ RcvPut /\ UNCHANGED <<hiveVars, replVars>>
    \/ RcvDel /\ UNCHANGED <<hiveVars, replVars>>
    \/ RcvReturn /\ UNCHANGED <<hiveVars, replVars>>
    \/ handleMsgCommit /\ UNCHANGED <<hiveVars, replVars>>
    \/ recoverFromError /\ UNCHANGED <<hiveVars, replVars>>

SpecBeeTx == Init /\ [][BeeTxNext]_vars

\* A bee that is sent messages and commands; its handlers leave the state
\* alone.
BeeNext ==
    \/ enqueMsg /\ UNCHANGED <<hiveVars, replVars>>
    \/ enqueCmd(LoopCmdTypes) /\ UNCHANGED <<hiveVars, replVars>>
    \/ startData /\ UNCHANGED <<hiveVars, replVars>>
    \/ startCtrl /\ UNCHANGED <<hiveVars, replVars>>
    \/ handleMsgBegin /\ UNCHANGED <<hiveVars, replVars>>
    \/ RcvReturn /\ UNCHANGED <<hiveVars, replVars>>
    \/ handleMsgCommit /\ UNCHANGED <<hiveVars, replVars>>
    \/ recoverFromError /\ UNCHANGED <<hiveVars, replVars>>
    \/ handleCmdStopList /\ UNCHANGED <<hiveVars, replVars>>
    \/ handleCmdDefault /\ UNCHANGED <<hiveVars, replVars>>
    \/ handleCmdSend /\ UNCHANGED <<hiveVars, replVars>>

SpecBee == Init /\ [][BeeNext]_vars

\* A bee that is sent commands of every type, and no message.
BeeCmdNext ==
    \/ enqueCmd(CmdTypes) /\ UNCHANGED <<hiveVars, replVars>>
    \/ startCtrl /\ UNCHANGED <<hiveVars, replVars>>
    \/ handleCmdStopList /\ UNCHANGED <<hiveVars, replVars>>
    \/ handleCmdSlave /\ UNCHANGED <<hiveVars, replVars>>
    \/ handleCmdBufferTx /\ UNCHANGED <<hiveVars, replVars>>
    \/ handleCmdCommitTx /\ UNCHANGED <<hiveVars, replVars>>
    \/ handleCmdDefault /\ UNCHANGED <<hiveVars, replVars>>
    \/ handleCmdSend /\ UNCHANGED <<hiveVars, replVars>>

SpecBeeCmds == Init /\ [][BeeCmdNext]_vars

\* A bee that is sent AddSlave and DelSlave commands and replicates
\* transactions to the slaves of its colony.
BeeReplNext ==
    \/ enqueCmd({"addSlaveCmd", "delSlaveCmd"}) /\ UNCHANGED <<hiveVars, replVars>>
    \/ startCtrl /\ UNCHANGED <<hiveVars, replVars>>
    \/ handleCmdSlave /\ UNCHANGED <<hiveVars, replVars>>
    \/ handleCmdSend /\ UNCHANGED <<hiveVars, replVars>>
    \/ (\E fails \in SUBSET BeeIDs : replicateTx(fails)) /\ UNCHANGED hiveVars

SpecBeeRepl == Init /\ [][BeeReplNext]_vars

\* The hive of a transactional app whose bee is not looked at.
InitHive == Init /\ transactional

\* The steps of the goroutine that called Start, up to its loop.
StartSteps ==
    \/ registerSignals
    \/ startQees
    \/ startListener
    \/ startRaftNode
    \/ reloadState

\* The steps of handleCmd for cmdStop when no qee has a handler, and the
\* return of Start.
StopSteps ==
    \/ hiveHandleCmdStop
    \/ stopListener
    \/ stopQees
    \/ stopQeesReturn
    \/ nodeStop
    \/ replyStop
    \/ StartReturn

\* The steps of stopQees for a qee.
StopQeeSteps ==
    \/ \E q \in Apps : stopQeeSend(q)
    \/ \E q \in Apps : waitQeeReply(q)
    \/ waitQeeTimeout

\* A hive without handlers that is started and stopped, again and again, by
\* the application and by a signal.
HiveLifeNext ==
    \/ Start
    \/ StartSteps
    \/ \E c \in Callers : Stop(c)
    \/ \E c \in Callers : loopCtrl(c)
    \/ StopSteps

SpecHiveLife == InitHive /\ [][HiveLifeNext]_vars

\* The goroutine of Start runs whenever it can take a step; when Start and
\* Stop are called is up to the application and the signals.
SpecHiveLifeFair ==
    SpecHiveLife /\ WF_vars(StartSteps \/ (\E c \in Callers : loopCtrl(c)) \/ StopSteps)

\* A hive whose apps register handlers for one message type before it is
\* started; it is started once, is sent broadcast messages and the
\* application's commands, and is stopped by the application.
HiveNext ==
    \/ \E q \in Apps : /\ starts = 0 /\ lastReg["T1"][q] = NilHandler
                        /\ registerHandler("T1", q, "h1")
    \/ emitMsg("T1", NoBee)
    \/ starts = 0 /\ Start
    \/ StartSteps
    \/ loopData
    \/ Stop("app")
    \/ \E t \in HiveCmdTypes : sendCmd(t)
    \/ loopCtrl("app")
    \/ hiveHandleCmd
    \/ StopSteps
    \/ StopQeeSteps

SpecHive == InitHive /\ [][HiveNext]_vars

\* A hive whose apps register handlers and that routes messages; no command
\* is sent to it.
HiveMsgNext ==
    \/ \E t \in MsgTypes, q \in Apps, l \in Handlers : registerHandler(t, q, l)
    \/ \E t \in MsgTypes, to \in HiveBees \cup {NoBee} : emitMsg(t, to)
    \/ Start
    \/ StartSteps
    \/ loopData

SpecHiveMsg == InitHive /\ [][HiveMsgNext]_vars

\* ------------------------------------------------------------------ claims
\* The view indices in use.
ViewIds == 1..Len(views)

\* What the staged operations of the transaction make of the dicts D.
Applied(D, its) == [n \in DOMAIN D |-> ApplyOps(D[n], its[n])]

\* C1: the CommitTx that ends the open transaction leaves the dicts equal to
\* their pre-transaction content with every operation staged in the
\* transaction applied, through whichever Dict(name) view it was staged.
C1_CommitAppliesAllStaged ==
    [][(phase = "open" /\ ret'.op = "CommitTx" /\ ~ret'.err)
         => Dicts' = Applied(pre, intents)]_vars

\* What Get must return for (n, k) inside the transaction: the latest staged
\* intent, else the underlying value.
IntentGet(n, k) ==
    IF k \in DOMAIN intents[n] /\ intents[n][k].T = "Put"
        THEN [v |-> intents[n][k].V, err |-> FALSE]
    ELSE IF k \in DOMAIN intents[n]
        THEN [v |-> NilVal, err |-> TRUE]
    ELSE inMemDictGet(Dicts, n, k)

\* C2: inside the open transaction Get(k) on every view Dict(n) returned in
\* it yields the latest intent staged for (n, k), whichever view staged it,
\* and the underlying value when none was staged.
C2_GetSeesLatestIntent ==
    phase = "open" =>
        \A i \in ViewIds : \A k \in Keys :
            (views[i].kind = "staged" /\ views[i].inTx)
                => ViewGet(Dicts, views[i], k) = IntentGet(views[i].dict, k)

\* C3: once the transaction is aborted, and as long as nothing new is staged,
\* the dicts are what they were before BeginTx (also after a later
\* CommitTx) and Get through every view, old or new, returns that content.
C3_AbortRestores ==
    (phase = "aborted" /\ quiet) =>
        /\ Dicts = pre
        /\ \A i \in ViewIds : \A k \in Keys :
              ViewGet(Dicts, views[i], k) = inMemDictGet(pre, views[i].dict, k)

\* C4: BeginTx returns an error exactly when a transaction is open, and a
\* failing BeginTx leaves the staged operations alone.
C4_BeginTxErrIffOpen ==
    [][ret'.op = "BeginTx"
         => /\ ret'.err <=> phase = "open"
            /\ ret'.err => UNCHANGED <<Dicts, tx, views>>]_vars

\* C5: CommitTx and AbortTx return an error exactly when no transaction is
\* open, and then change neither the dicts nor the transaction.
C5_EndTxErrIffNotOpen ==
    [][ret'.op \in {"CommitTx", "AbortTx"}
         => /\ ret'.err <=> phase # "open"
            /\ phase # "open" => UNCHANGED <<Dicts, tx, views>>]_vars

\* The keys ForEach must visit on the staged dict sd.
StagedKeys(sd, T) == {k \in DOMAIN sd.ops : sd.ops[k].T = T}

MustVisit(D, sd) ==
    ((DOMAIN inMemDict(D, sd.dict)[sd.dict]) \ StagedKeys(sd, "Del"))
        \cup StagedKeys(sd, "Put")

\* C6: ForEach on a staged view in the open transaction calls f for exactly
\* (underlying keys minus staged-deleted keys) plus the staged-put keys,
\* once each, with the staged value where there is one.
C6_ForEachVisitsStagedPuts ==
    phase = "open" =>
        \A i \in ViewIds : views[i].kind = "staged" =>
            LET fs == inMemStagedDictForEach(Dicts, views[i])
                sd == views[i]
            IN /\ {fs[j][1] : j \in 1..Len(fs)} = MustVisit(Dicts, sd)
               /\ Len(fs) = Cardinality(MustVisit(Dicts, sd))
               /\ \A j \in 1..Len(fs) :
                     fs[j][2] = inMemStagedDictGet(Dicts, sd, fs[j][1]).v

\* C7: a Put or Del through a view Dict(name) returned while no transaction
\* was open, made while none is open, is in the underlying dict at once.
C7_DirectWhenNoTx ==
    [][(ret'.op \in {"Put", "Del"} /\ phase # "open" /\ ~views[ret'.view].inTx)
         => inMemDictGet(Dicts', views[ret'.view].dict, ret'.key)
              = [v |-> ret'.val, err |-> ret'.op = "Del"]]_vars

\* The dicts by content: a dict that was never asked for holds nothing.
Content(D) == [n \in Names |-> IF n \in DOMAIN D THEN D[n] ELSE EmptyMap]

\* C8: when the handler of a transactional app's message returns an error or
\* panics, handleMsg aborts and does not commit, it returns to the loop, and
\* the handler's Puts and Dels are not in the bee's dicts afterwards, for as
\* long as no later handler writes.
C8_FailedHandlerLeavesNoTrace ==
    transactional =>
        /\ (pc = "select" /\ outcome \in {"err", "panic"})
              => calls = <<"BeginTx", "AbortTx">>
        /\ outcome \in {"err", "panic"} => pc \in {"recover", "select", "handleMsg"}
        /\ (hasFailed /\ cleanSince) => Content(Dicts) = Content(failPre)

IsPrefix(a, b) == Len(a) <= Len(b) /\ \A j \in 1..Len(a) : a[j] = b[j]

\* C9: at most one handleMsg is in progress, no command is being handled
\* while one is, and handleMsg is entered for the messages in the order they
\* left the data channel, each before the next one leaves it.
C9_SequentialHandling ==
    /\ Cardinality(inProgress) <= 1
    /\ pc \in {"handleCmd", "reply"} => inProgress = {}
    /\ pc \in {"rcv", "commit", "recover"} => inProgress = {cur.id}
    /\ IsPrefix(started, dequeued)
    /\ Len(dequeued) - Len(started) <= 1
    /\ pc = "select" => started = dequeued

\* A second message is being handled while a command waits in ctrlCh and
\* another was handled before.
C9_Witness ==
    /\ pc = "rcv"
    /\ Len(started) = 2
    /\ ctrlCh # <<>>
    /\ cmdsTaken >= 1

\* Running, Stopping (the Stop command is taken, its reply not yet sent) or
\* Stopped (start() has returned).
BeeStatus ==
    IF pc = "stopped" THEN "Stopped"
    ELSE IF pc \in {"handleCmd", "reply"} /\ curCmd.CmdType = "stopCmd" THEN "Stopping"
    ELSE "Running"

\* C10: the bee leaves Running only by taking a Stop command, leaves
\* Stopping only by sending that command's single reply, and once Stopped
\* takes nothing from its channels, replies to nothing and changes nothing.
C10_StopRepliesOnceAndExits ==
    [][/\ BeeStatus' # BeeStatus =>
             \/ /\ BeeStatus = "Running" /\ BeeStatus' = "Stopping"
                /\ ctrlCh # <<>> /\ curCmd' = Head(ctrlCh)
             \/ /\ BeeStatus = "Stopping" /\ BeeStatus' = "Stopped"
                /\ replies' = [replies EXCEPT ![curCmd.id] =
                                 <<[Err |-> FALSE, Data |-> <<>>]>>]
       /\ BeeStatus = "Stopped" =>
             /\ IsPrefix(dataCh, dataCh') /\ IsPrefix(ctrlCh, ctrlCh')
             /\ UNCHANGED <<pc, cur, curCmd, pending, replies, beeColony, txBuf,
                            dequeued, started, inProgress, cmdsTaken, stateVars>>
      ]_vars

\* The bee has stopped after its one reply, with a message and a command
\* still in its channels.
C10_Witness ==
    /\ pc = "stopped"
    /\ Len(replies[curCmd.id]) = 1
    /\ dataCh # <<>>
    /\ ctrlCh # <<>>

\* C11: in every state a bee reaches by AddSlave and DelSlave commands, the
\* master of its colony is not one of the colony's slaves, also when AddSlave
\* is sent with the master's own id.
C11_MasterNotSlave ==
    \A j \in 1..Len(beeColony.Slaves) : beeColony.Slaves[j] # beeColony.Master

\* The step in which handleCmd handles a command whose type is in types.
HandlesCmd(types) ==
    pc = "handleCmd" /\ pc' # "handleCmd" /\ curCmd.CmdType \in types

\* Whether txBuf holds a transaction with sequence seq.
Buffered(seq) == \E j \in 1..Len(txBuf) : txBuf[j].Seq = seq

\* C19: BufferTx appends the transaction to txBuf and leaves the buffered ones
\* as they are; CommitTx{Seq} of a buffered Seq leaves that transaction
\* Committed in txBuf and replies success; CommitTx of a Seq that is not
\* buffered replies an error and changes nothing.
C19_CommitMarksBuffered ==
    [][/\ HandlesCmd({"bufferTxCmd"}) =>
            /\ Len(txBuf') = Len(txBuf) + 1
            /\ SubSeq(txBuf', 1, Len(txBuf)) = txBuf
            /\ txBuf'[Len(txBuf')].Seq = curCmd.CmdData
            /\ txBuf'[Len(txBuf')].Status = "TxOpen"
       /\ (HandlesCmd({"commitTxCmd"}) /\ Buffered(curCmd.CmdData)) =>
            /\ \E j \in 1..Len(txBuf') : /\ txBuf'[j].Seq = curCmd.CmdData
                                         /\ txBuf'[j].Status = "TxCommitted"
            /\ pc' = "reply" /\ ~pending'.Err
       /\ (HandlesCmd({"commitTxCmd"}) /\ ~Buffered(curCmd.CmdData)) =>
            /\ txBuf' = txBuf
            /\ pc' = "reply" /\ pending'.Err]_vars

\* Whether the colony turns the slave command cmd down.
Rejected(cmd) ==
    \/ cmd.CmdType = "addSlaveCmd" /\ ~AddSlave(beeColony.Slaves, cmd.CmdData).ok
    \/ cmd.CmdType = "delSlaveCmd" /\ ~DelSlave(beeColony.Slaves, cmd.CmdData).ok

\* The members of the sequence s.
Members(s) == {s[j] : j \in 1..Len(s)}

\* C20: AddSlave of an id in the slave list and DelSlave of an id not in it
\* get one reply carrying an error, leave the colony unchanged and the bee
\* running; AddSlave of a new id and DelSlave of a present id get a reply
\* without error and add or remove exactly that id.
C20_SlaveCmdRejection ==
    [][HandlesCmd({"addSlaveCmd", "delSlaveCmd"}) =>
         IF Rejected(curCmd)
           THEN /\ pc' = "reply" /\ pending'.Err /\ pending'.continue
                /\ beeColony' = beeColony
           ELSE /\ pc' = "reply" /\ ~pending'.Err /\ pending'.continue
                /\ beeColony'.Master = beeColony.Master
                /\ Members(beeColony'.Slaves) =
                     IF curCmd.CmdType = "addSlaveCmd"
                       THEN Members(beeColony.Slaves) \cup {curCmd.CmdData}
                       ELSE Members(beeColony.Slaves) \ {curCmd.CmdData}]_vars

\* The step in which caller c calls Stop.
StopStep(c) ==
    /\ callers'[c].cmd = "cmdStop"
    /\ \/ c = "app" /\ ncalls' = ncalls + 1
       \/ c = "sig" /\ callers[c].pc = "sigwait" /\ callers'[c].pc # "sigwait"

\* C12: a hive is stopped when constructed and started by Start; Stop on a
\* hive whose status is stopped returns an error, sends no command and
\* changes nothing of the hive; once a Stop was processed the status never
\* becomes started again.
C12_StoppedIsTerminal ==
    /\ [](starts = 0 => status = "hiveStopped")
    /\ [][/\ starts' = starts + 1 => status' = "hiveStarted"
          /\ \A c \in Callers :
               (StopStep(c) /\ status = "hiveStopped") =>
                   /\ callers'[c].pc = "returned"
                   /\ callers'[c].err = "stopped"
                   /\ callers'[c].replies = 0
                   /\ UNCHANGED <<status, hpc, hiveDataCh, listener, node,
                                  qees, qeeDataCh, qeeCtrl, cc>>
          /\ stopProcessed => status' = "hiveStopped"]_vars

\* C13: every Stop called on a started hive returns in the end, for every one
\* of several concurrent callers, unless the process has exited; and it
\* returns only when the hive has stopped.
C13_EveryStopReturns ==
    /\ [][\A c \in Callers :
            (callers[c].pc = "wait" /\ callers'[c].pc = "returned") =>
                /\ status' = "hiveStopped"
                /\ node' = "stopped"
                /\ listener' # "open"]_vars
    /\ \A c \in Callers :
         (callers[c].pc = "send") ~> (callers[c].pc = "returned" \/ ~alive)

\* The place of a stop event in the order of the cascade.
StopRank(e) ==
    IF e.ev = "status" THEN 1
    ELSE IF e.ev = "listener" THEN 2
    ELSE IF e.ev \in {"send", "ack"} THEN 3
    ELSE IF e.ev = "node" THEN 4
    ELSE 5

\* The qees that have a handler for some type.
HandlerQees == {q \in Apps : \E t \in MsgTypes : lastReg[t][q] # NilHandler}

\* The steps of the cascade so far follow the order status, listener, qees,
\* node, reply: none is skipped, none happens twice, and a qee is sent Stop
\* only once the wait for the qee before it is over.
StopOrder ==
    /\ \A i \in 1..Len(stopLog) :
         /\ i = 1 => stopLog[i].ev = "status"
         /\ i > 1 =>
              LET a == stopLog[i - 1]
                  b == stopLog[i]
              IN \/ StopRank(b) = StopRank(a) + 1 /\ a.ev # "send"
                 \/ a.ev = "listener" /\ b.ev = "node" /\ HandlerQees = {}
                 \/ a.ev = "send" /\ b.ev = "ack" /\ b.q = a.q
                 \/ a.ev = "ack" /\ b.ev = "send"
                      /\ \A j \in 1..(i - 1) : stopLog[j].q # b.q
         /\ stopLog[i].ev = "node" =>
              \A q \in HandlerQees :
                 \E j \in 1..(i - 1) : stopLog[j].ev = "ack" /\ stopLog[j].q = q
    /\ stopLog # <<>> => status # "hiveStarted"
    /\ (\E i \in 1..Len(stopLog) : stopLog[i].ev = "listener") => listener # "open"
    /\ (\E i \in 1..Len(stopLog) : stopLog[i].ev = "node") => node = "stopped"
    /\ \A c \in Callers :
         (callers[c].pc = "returned" /\ callers[c].cmd = "cmdStop"
            /\ callers[c].replies = 1) =>
             (stopLog # <<>> /\ stopLog[Len(stopLog)].ev = "reply")

\* The wait for a qee ends with the reply of that qee, after at most Tries
\* timeouts, or with timeout number Tries + 1.
StopAwaitsEach ==
    \A i \in 1..Len(stopLog) :
       stopLog[i].ev = "ack" =>
           \/ stopLog[i].by = stopLog[i].q /\ stopLog[i].n <= Tries
           \/ stopLog[i].by = "timeout" /\ stopLog[i].n = Tries + 1

\* C14: the stop cascade goes in the order status, listener, qees, node,
\* reply to the caller, no step beginning before the one before it is over,
\* and every qee with a handler is waited for until it replies or is given up
\* after its timeouts.
C14_StopCascadeOrder == StopOrder /\ StopAwaitsEach

\* The step in which handleCmd handles a command of type t.
HiveHandles(t) ==
    hpc = "handleCmd" /\ hpc' # "handleCmd" /\ callers[cc].cmd = t

\* C15: every command the hive received on its control channel gets exactly
\* one reply on its channel: none while it is blocked in the send, its one
\* reply is due while it waits, and it has one once sendCmd returned; a
\* command of a type the hive does not know is answered with ErrInvalidCmd
\* and changes nothing of the hive.
C15_OneReplyPerCmd ==
    /\ [](\A c \in Callers :
            /\ callers[c].pc = "send" => callers[c].replies = 0
            /\ callers[c].pc = "wait" =>
                 /\ callers[c].replies = 0
                 /\ cc = c
                 /\ hpc \notin {"idle", "loop", "fatal"}
            /\ (callers[c].pc = "returned" /\ callers[c].err # "stopped") =>
                 callers[c].replies = 1)
    /\ [][HiveHandles("cmdOther") =>
            /\ callers'[cc].pc = "returned"
            /\ callers'[cc].replies = 1
            /\ callers'[cc].err = "ErrInvalidCmd"
            /\ UNCHANGED <<status, hiveDataCh, listener, node, reloaded, qees,
                           qeeDataCh, qeeCtrl>>]_vars

\* The application's second command, of an unknown type, has been answered.
C15_Witness ==
    /\ callers["app"].pc = "returned"
    /\ callers["app"].cmd = "cmdOther"
    /\ callers["app"].err = "ErrInvalidCmd"
    /\ callers["app"].replies = 1
    /\ ncalls = 2

\* The step in which Start takes a message from its data channel and
\* handleMsg handles it.
Dequeues == Len(hiveDataCh') < Len(hiveDataCh)

\* What the step has sent on the data channel of qee q.
SentOn(q) == SubSeq(qeeDataCh'[q], Len(qeeDataCh[q]) + 1, Len(qeeDataCh'[q]))

\* C16: a broadcast message of type T is enqueued exactly once on the data
\* channel of every qee that has a handler registered for T, with the handler
\* that qee registered last for T, and on no other qee, however often a
\* handler was registered for the same type and qee.
C16_BroadcastOncePerQee ==
    [][(Dequeues /\ Head(hiveDataCh).MsgTo = NoBee) =>
         LET m == Head(hiveDataCh)
         IN \A q \in Apps :
              SentOn(q) = IF lastReg[m.Type][q] # NilHandler
                            THEN <<[m |-> m.id, h |-> lastReg[m.Type][q]]>>
                            ELSE <<>>]_vars

\* A broadcast message was delivered with handler h2 to a qee that registered
\* twice for its type, and another qee got nothing.
C16_Witness ==
    /\ regs = 2
    /\ lastReg = [t \in MsgTypes |-> [q \in Apps |->
                    IF t = "T1" /\ q = "a1" THEN "h2" ELSE NilHandler]]
    /\ qeeDataCh = [q \in Apps |-> IF q = "a1" THEN <<[m |-> 1, h |-> "h2"]>> ELSE <<>>]
    /\ hiveDataCh = <<>>
    /\ nextHiveMsg = 2

\* C17: a unicast message to a bee of the registry that lives on this hive is
\* enqueued on the data channel of the qee of the bee's app and nowhere
\* else; one to a bee that lives on another hive is enqueued on no local qee.
C17_UnicastByDestination ==
    [][(Dequeues /\ ~registryBee(Head(hiveDataCh).MsgTo).err) =>
         LET m == Head(hiveDataCh)
             i == registryBee(m.MsgTo)
         IN IF i.Hive = HiveID
              THEN /\ \E h \in Handlers \cup {NilHandler} :
                        SentOn(i.App) = <<[m |-> m.id, h |-> h]>>
                   /\ \A q \in Apps \ {i.App} : SentOn(q) = <<>>
              ELSE \A q \in Apps : SentOn(q) = <<>>]_vars

\* The steps of Start before its loop, in the order of the code.
StartOrder ==
    <<"registerSignals", "startQees", "startListener", "startRaftNode",
      "reloadState">>

\* The step in which Start takes a command from its control channel.
Receives == \E c \in Callers : callers[c].pc = "send" /\ callers'[c].pc = "wait"

Intents == {intents[n][k] : <<n, k>> \in {nk \in Names \X Keys : nk[2] \in DOMAIN intents[nk[1]]}}

\* C22: while a transaction is open Tx() returns exactly the staged
\* operations, one entry per staged (dict, key) intent, every entry a staged
\* Put or Del and none empty; with no open transaction it returns nil.
C22_TxReturnsStagedOps ==
    ret.op = "Tx" =>
        IF phase = "open"
          THEN /\ ~ret.isNil
               /\ Len(ret.ops) = Cardinality(Intents)
               /\ {ret.ops[j] : j \in 1..Len(ret.ops)} = Intents
          ELSE ret.isNil

\* C21: replicateTx sends BufferTx to every slave of the colony, none if
\* there is no slave, and returns an error exactly if the send to the first
\* slave fails, whatever happens to the sends to the other slaves.
C21_ReplicateToEverySlave ==
    repl.called =>
        /\ repl.sent = repl.slaves
        /\ repl.err <=> (repl.slaves # <<>> /\ repl.slaves[1] \in repl.fails)

\* C23: in the stop cascade a qee counts as stopped only by its own reply or
\* by running out of its own timeouts, never by the late reply of a qee that
\* was given up, so the cascade does not go past a qee that has neither
\* replied nor timed out.
C23_OnlyOwnReplyOrTimeout ==
    /\ \A i \in 1..Len(stopLog) :
         stopLog[i].ev = "ack" => stopLog[i].by \in {stopLog[i].q, "timeout"}
    /\ hpc \in {"nodeStop", "replyStop"} =>
         \A q \in HandlerQees :
            \/ qeeCtrl[q] = "stopped"
            \/ \E i \in 1..Len(stopLog) :
                 /\ stopLog[i].ev = "ack"
                 /\ stopLog[i].q = q
                 /\ stopLog[i].by = "timeout"

=============================================================================
